---- MODULE Spec2Model ----
(***************************************************************************)
(* Model of src/main.py: the script that reconciles the Hugeicons catalog  *)
(* with the SVG files already present in the local icons directory and     *)
(* inserts one row per matched icon into the Supabase table icon_vectors.  *)
(*                                                                         *)
(* A Python str is a sequence of symbols.  "," is the comma, " " is a      *)
(* whitespace character, every other symbol stands for a non-empty run of  *)
(* characters holding neither a comma nor whitespace, so that split(",")   *)
(* and strip() are computed symbol by symbol as Python computes them.      *)
(* A Python list is a sequence, a dict is a record.                        *)
(***************************************************************************)
EXTENDS Integers, Sequences, FiniteSets, TLC

VARIABLES
    pc,              \* position of the single thread of control
    SUPABASE_URL,    \* main.py:13, os.getenv result (None when unset)
    SUPABASE_KEY,    \* main.py:14
    fs,              \* the paths that exist on the local filesystem
    icons,           \* main.py:109, the list returned by fetch_icon_list
    idx,             \* 1-based position of the for loop of main.py:113
    raw_tags,        \* main.py:115 / parameter of parse_tags
    category,        \* main.py:116 / parameter of parse_tags
    tags_list,       \* main.py:129 / value returned by parse_tags
    rows_to_insert,  \* main.py:111 / parameter rows of insert_icons_to_supabase
    issued,          \* the uuid4 values generated so far in this process
    i,               \* main.py:92, offset of the chunk loop
    inserted,        \* the chunks handed to table(...).insert(...).execute(), in call order
    log,             \* the lines printed, in order
    error            \* the exception that ended the process, "none" otherwise

vars == <<pc, SUPABASE_URL, SUPABASE_KEY, fs, icons, idx, raw_tags, category,
          tags_list, rows_to_insert, issued, i, inserted, log, error>>

-----------------------------------------------------------------------------
(* Bounds of the model. *)

\* longest raw tag string given to a direct call of parse_tags
MaxRawLen == 4
\* longest category string given to a direct call of parse_tags
MaxCatLen == 2
\* longest catalog the API returns in a run of main
MaxIcons == 2
\* longest row list given to a direct call of insert_icons_to_supabase
MaxRows == 250

-----------------------------------------------------------------------------
(* Python values. *)

\* Python's None: a value different from every str and list of the model.
None == <<"<None>">>

\* the empty str
EmptyStr == <<>>

\* truth value of a str-or-None, as `if x:` / `not x` test it
Truthy(v) == v # None /\ v # EmptyStr

\* str.isspace for one symbol
IsSpace(c) == c = " "

\* str.lstrip()
RECURSIVE lstrip(_)
lstrip(s) ==
    IF s # <<>> /\ IsSpace(Head(s)) THEN lstrip(Tail(s)) ELSE s

\* str.rstrip()
RECURSIVE rstrip(_)
rstrip(s) ==
    IF s # <<>> /\ IsSpace(s[Len(s)]) THEN rstrip(SubSeq(s, 1, Len(s) - 1)) ELSE s

\* str.strip()
strip(s) == rstrip(lstrip(s))

\* str.split(sep): the pieces between the occurrences of sep, empty pieces kept
RECURSIVE split(_, _)
split(s, sep) ==
    IF \A k \in 1..Len(s) : s[k] # sep
    THEN <<s>>
    ELSE LET k == CHOOSE k \in 1..Len(s) :
                      s[k] = sep /\ \A j \in 1..(k - 1) : s[j] # sep
         IN  <<SubSeq(s, 1, k - 1)>> \o split(SubSeq(s, k + 1, Len(s)), sep)

\* [t.strip() for t in pieces if t.strip()]
RECURSIVE StripNonEmpty(_)
StripNonEmpty(pieces) ==
    IF pieces = <<>> THEN <<>>
    ELSE LET t == strip(Head(pieces))
         IN  (IF t # EmptyStr THEN <<t>> ELSE <<>>) \o StripNonEmpty(Tail(pieces))

\* the loop of main.py:71-76 from position k on, with the locals seen and unique_tags
RECURSIVE UniqueLoop(_, _, _, _)
UniqueLoop(tags, k, seen, unique_tags) ==
    IF k > Len(tags) THEN unique_tags
    ELSE IF tags[k] \notin seen
         THEN UniqueLoop(tags, k + 1, seen \cup {tags[k]}, Append(unique_tags, tags[k]))
         ELSE UniqueLoop(tags, k + 1, seen, unique_tags)

\* the candidate list with the category put before the split tags
TagCandidatesCategoryFirst(raw, cat) ==
    LET tags0 == IF Truthy(raw) THEN StripNonEmpty(split(raw, ",")) ELSE <<>>
    IN  IF Truthy(cat) THEN <<strip(cat)>> \o tags0 ELSE tags0

\* the list `tags` of parse_tags when the dedup loop starts (main.py:63-68)
TagCandidates(raw, cat) ==
    LET tags0 == IF Truthy(raw) THEN StripNonEmpty(split(raw, ",")) ELSE <<>>
    IN  IF Truthy(cat) THEN Append(tags0, strip(cat)) ELSE tags0

parse_tags(raw, cat) == UniqueLoop(TagCandidates(raw, cat), 1, {}, <<>>)

-----------------------------------------------------------------------------
(* Inputs of a direct call of parse_tags. *)

RawAlphabet == {"a", "b", ",", " "}
CatAlphabet == {"a", "b", " "}

RECURSIVE StrsUpTo(_, _)
StrsUpTo(alphabet, n) ==
    IF n = 0 THEN {<<>>}
    ELSE LET shorter == StrsUpTo(alphabet, n - 1)
         IN  shorter \cup {Append(s, c) : s \in shorter, c \in alphabet}

\* the examples of the documentation, beside every short string
DocRawTags == { <<"b", ",", " ", "a", ",", " ", "b">>,
                <<"direction", ",", " ", "arrow">>,
                <<"parenthesis", ",", " ", "bracket">> }
DocCategories == { <<"Shapes">>, <<"navigation">>, <<"mathematics">> }

RawTagInputs == {None} \cup StrsUpTo(RawAlphabet, MaxRawLen) \cup DocRawTags
CategoryInputs == {None} \cup StrsUpTo(CatAlphabet, MaxCatLen) \cup DocCategories

-----------------------------------------------------------------------------
(* Configuration (main.py:16-22). *)

HUGEICONS_API_URL == <<"https://hugeicons.com/api/icons">>
ICON_STYLE_SUFFIX == <<"stroke-rounded">>
OUTPUT_DIR == <<"icons">>

\* main.py:91
chunk_size == 100

-----------------------------------------------------------------------------
(* Library calls. *)

\* dict.get(key, default)
Get(d, key, default) == IF key \in DOMAIN d THEN d[key] ELSE default

\* os.path.join(a, b): an absolute b discards a
path_join(a, b) ==
    IF b # <<>> /\ Head(b) = "/" THEN b ELSE a \o <<"/">> \o b

\* os.path.exists(p)
path_exists(p) == p \in fs

\* an int formatted in an f-string: one run of digits
Str(n) == <<ToString(n)>>

\* the identifiers uuid4 can produce in a run; uuid4 draws at random from a
\* 122-bit space and is taken as never returning a value twice in one process
UUIDs == 1..(MaxIcons + 1)

\* str(u) of a UUID u: a non-empty str that is different for different UUIDs
UuidStr(u) == <<"uuid", ToString(u)>>

\* the values a call of uuid.uuid4() can return next
uuid4 == UUIDs \ issued

\* f"{name}-{ICON_STYLE_SUFFIX}.svg" (main.py:122)
FileName(name) == name \o <<"-">> \o ICON_STYLE_SUFFIX \o <<".svg">>

\* a slice that takes one element too many: xs[a : b + 1]
SliceOneTooMany(xs, a, b) == SubSeq(xs, a + 1, IF b + 1 < Len(xs) THEN b + 1 ELSE Len(xs))

\* the list slice xs[a : b] with 0 <= a <= b (0-based, b exclusive, clipped to len)
Slice(xs, a, b) == SubSeq(xs, a + 1, IF b < Len(xs) THEN b ELSE Len(xs))

\* a printed line
Line(msg, args) == [msg |-> msg, args |-> args]

-----------------------------------------------------------------------------
(* The environment of a run of main. *)

IconNames == { <<"arrow-up">>, <<"missing-icon">> }

\* the value os.getenv gives for a store setting: unset, empty or set
EnvValues == { None, EmptyStr, <<"secret">> }

\* the local filesystem: the output directory and the SVG files under it
FileSystems ==
    { f \in SUBSET ({OUTPUT_DIR} \cup {path_join(OUTPUT_DIR, FileName(n)) : n \in IconNames}) :
        f # {} => OUTPUT_DIR \in f }

\* the tags / category fields of a catalog entry (a key may be absent)
TagFields ==
    { [tags |-> <<"direction", ",", " ", "arrow">>, category |-> <<"navigation">>],
      [tags |-> EmptyStr, category |-> EmptyStr],
      [tags |-> <<"b", ",", " ", "a", ",", " ", "b">>, category |-> <<"a">>],
      [category |-> <<"arrow">>] }

\* d with the key "name" bound to n
WithName(d, n) ==
    [k \in DOMAIN d \cup {"name"} |-> IF k = "name" THEN n ELSE d[k]]

\* the catalog entries: name absent, empty or one of IconNames
IconEntries ==
    TagFields \cup {WithName(d, n) : d \in TagFields, n \in {EmptyStr} \cup IconNames}

RECURSIVE ListsUpTo(_, _)
ListsUpTo(S, n) ==
    IF n = 0 THEN {<<>>}
    ELSE LET shorter == ListsUpTo(S, n - 1)
         IN  shorter \cup {Append(s, e) : s \in shorter, e \in S}

Catalogs == ListsUpTo(IconEntries, MaxIcons)

\* the exceptions requests.get / raise_for_status can raise
FetchErrors == {"requests.ConnectionError", "requests.HTTPError"}

\* the responses execute() can return: with no error attribute, with error None,
\* with an error
Responses == { [data |-> <<>>], [data |-> <<>>, error |-> None],
               [data |-> <<>>, error |-> <<"duplicate key">>] }

-----------------------------------------------------------------------------
(* A run of main (main.py:105-144). *)

Init ==
    /\ pc = "main"
    /\ SUPABASE_URL \in EnvValues
    /\ SUPABASE_KEY \in EnvValues
    /\ fs \in FileSystems
    /\ icons = <<>>
    /\ idx = 1
    /\ raw_tags = None
    /\ category = None
    /\ tags_list = <<>>
    /\ rows_to_insert = <<>>
    /\ issued = {}
    /\ i = 0
    /\ inserted = <<>>
    /\ log = <<>>
    /\ error = "none"

\* main.py:106 with main.py:25-34
get_supabase_client ==
    /\ pc = "main"
    /\ IF ~Truthy(SUPABASE_URL) \/ ~Truthy(SUPABASE_KEY)
       THEN /\ pc' = "raised"
            /\ error' = "RuntimeError: SUPABASE_URL and SUPABASE_KEY must be set"
       ELSE /\ pc' = "ensure_output_dir"
            /\ UNCHANGED error
    /\ UNCHANGED <<SUPABASE_URL, SUPABASE_KEY, fs, icons, idx, raw_tags, category,
                   tags_list, rows_to_insert, issued, i, inserted, log>>

\* ensure_output_dir without its check
ensure_output_dir_unchecked ==
    /\ pc = "ensure_output_dir"
    /\ pc' = "fetch_icon_list"
    /\ UNCHANGED <<SUPABASE_URL, SUPABASE_KEY, fs, icons, idx, raw_tags, category,
                   tags_list, rows_to_insert, issued, i, inserted, log, error>>

\* main.py:107 with main.py:50-55
ensure_output_dir ==
    /\ pc = "ensure_output_dir"
    /\ IF ~path_exists(OUTPUT_DIR)
       THEN /\ pc' = "raised"
            /\ error' = "RuntimeError: Output directory does not exist"
       ELSE /\ pc' = "fetch_icon_list"
            /\ UNCHANGED error
    /\ UNCHANGED <<SUPABASE_URL, SUPABASE_KEY, fs, icons, idx, raw_tags, category,
                   tags_list, rows_to_insert, issued, i, inserted, log>>

\* main.py:109 with main.py:37-41: the GET or raise_for_status raises
fetch_icon_list_raises ==
    /\ pc = "fetch_icon_list"
    /\ log' = Append(log, Line("Fetching icon list from", <<HUGEICONS_API_URL>>))
    /\ \E e \in FetchErrors : error' = e
    /\ pc' = "raised"
    /\ UNCHANGED <<SUPABASE_URL, SUPABASE_KEY, fs, icons, idx, raw_tags, category,
                   tags_list, rows_to_insert, issued, i, inserted>>

\* main.py:109-111 with main.py:37-47: the catalog is returned
fetch_icon_list_returns ==
    /\ pc = "fetch_icon_list"
    /\ \E data \in Catalogs :
          /\ icons' = data
          /\ log' = log \o << Line("Fetching icon list from", <<HUGEICONS_API_URL>>),
                              Line("Fetched icons from API.", <<Str(Len(data))>>) >>
    /\ rows_to_insert' = <<>>
    /\ idx' = 1
    /\ pc' = "for_icon"
    /\ UNCHANGED <<SUPABASE_URL, SUPABASE_KEY, fs, raw_tags, category, tags_list,
                   issued, i, inserted, error>>

\* main.py:113-119: an entry with no name, or an empty one
skip_no_name ==
    /\ pc = "for_icon"
    /\ idx <= Len(icons)
    /\ LET icon == icons[idx]
           name == Get(icon, "name", None)
       IN  /\ raw_tags' = Get(icon, "tags", EmptyStr)
           /\ category' = Get(icon, "category", None)
           /\ ~Truthy(name)
    /\ idx' = idx + 1
    /\ UNCHANGED <<pc, SUPABASE_URL, SUPABASE_KEY, fs, icons, tags_list,
                   rows_to_insert, issued, i, inserted, log, error>>

\* a missing file ends the loop (break) instead of moving to the next entry
skip_file_not_found_breaks ==
    /\ pc = "for_icon"
    /\ idx <= Len(icons)
    /\ LET icon == icons[idx]
           name == Get(icon, "name", None)
           file_name == FileName(name)
           local_path == path_join(OUTPUT_DIR, file_name)
       IN  /\ raw_tags' = Get(icon, "tags", EmptyStr)
           /\ category' = Get(icon, "category", None)
           /\ Truthy(name)
           /\ ~path_exists(local_path)
           /\ log' = Append(log, Line("File not found for icon - skipping.",
                                      <<name, local_path>>))
    /\ idx' = Len(icons) + 1
    /\ UNCHANGED <<pc, SUPABASE_URL, SUPABASE_KEY, fs, icons, tags_list,
                   rows_to_insert, issued, i, inserted, error>>

\* a missing file is skipped without the print of main.py:126
skip_file_not_found_silent ==
    /\ pc = "for_icon"
    /\ idx <= Len(icons)
    /\ LET icon == icons[idx]
           name == Get(icon, "name", None)
           file_name == FileName(name)
           local_path == path_join(OUTPUT_DIR, file_name)
       IN  /\ raw_tags' = Get(icon, "tags", EmptyStr)
           /\ category' = Get(icon, "category", None)
           /\ Truthy(name)
           /\ ~path_exists(local_path)
    /\ idx' = idx + 1
    /\ UNCHANGED <<pc, SUPABASE_URL, SUPABASE_KEY, fs, icons, tags_list,
                   rows_to_insert, issued, i, inserted, log, error>>

\* main.py:113-127: an entry whose file is not in the output directory
skip_file_not_found ==
    /\ pc = "for_icon"
    /\ idx <= Len(icons)
    /\ LET icon == icons[idx]
           name == Get(icon, "name", None)
           file_name == FileName(name)
           local_path == path_join(OUTPUT_DIR, file_name)
       IN  /\ raw_tags' = Get(icon, "tags", EmptyStr)
           /\ category' = Get(icon, "category", None)
           /\ Truthy(name)
           /\ ~path_exists(local_path)
           /\ log' = Append(log, Line("File not found for icon - skipping.",
                                      <<name, local_path>>))
    /\ idx' = idx + 1
    /\ UNCHANGED <<pc, SUPABASE_URL, SUPABASE_KEY, fs, icons, tags_list,
                   rows_to_insert, issued, i, inserted, error>>

\* a row whose id is computed from the icon name rather than drawn afresh
row_id_from_name(u, name, tags, file_name) ==
    [id |-> <<"uuid">> \o name,
     icon_name |-> name,
     tags |-> tags,
     keyword |-> EmptyStr,
     file |-> file_name,
     embedding |-> None]

\* a row whose file drops the style suffix
row_file_without_suffix(u, name, tags, file_name) ==
    [id |-> UuidStr(u),
     icon_name |-> name,
     tags |-> tags,
     keyword |-> EmptyStr,
     file |-> name \o <<".svg">>,
     embedding |-> None]

\* the dict literal of main.py:131-138, u being the value uuid4 returned
row(u, name, tags, file_name) ==
    [id |-> UuidStr(u),
     icon_name |-> name,
     tags |-> tags,
     keyword |-> EmptyStr,
     file |-> file_name,
     embedding |-> None]

\* main.py:113-140: an entry whose file exists gives a row
build_row ==
    /\ pc = "for_icon"
    /\ idx <= Len(icons)
    /\ LET icon == icons[idx]
           name == Get(icon, "name", None)
           file_name == FileName(name)
           local_path == path_join(OUTPUT_DIR, file_name)
       IN  /\ raw_tags' = Get(icon, "tags", EmptyStr)
           /\ category' = Get(icon, "category", None)
           /\ Truthy(name)
           /\ path_exists(local_path)
           /\ tags_list' = parse_tags(raw_tags', category')
           /\ \E u \in uuid4 :
                 /\ issued' = issued \cup {u}
                 /\ rows_to_insert' =
                       Append(rows_to_insert, row(u, name, tags_list', file_name))
    /\ idx' = idx + 1
    /\ UNCHANGED <<pc, SUPABASE_URL, SUPABASE_KEY, fs, icons, i, inserted, log, error>>

\* main.py:142-143: the loop is over, insert_icons_to_supabase is called
call_insert ==
    /\ pc = "for_icon"
    /\ idx > Len(icons)
    /\ log' = Append(log, Line("Prepared rows to insert into Supabase.",
                               <<Str(Len(rows_to_insert))>>))
    /\ i' = 0
    /\ pc' = "insert"
    /\ UNCHANGED <<SUPABASE_URL, SUPABASE_KEY, fs, icons, idx, raw_tags, category,
                   tags_list, rows_to_insert, issued, inserted, error>>

-----------------------------------------------------------------------------
(* insert_icons_to_supabase(supabase, rows_to_insert) (main.py:81-102). *)

\* the number of the chunk at offset k: k // chunk_size + 1 (main.py:95)
ChunkNo(k) == (k \div chunk_size) + 1

\* no early return: the empty list is submitted as one chunk
insert_no_rows_submits ==
    /\ pc = "insert"
    /\ rows_to_insert = <<>>
    /\ inserted' = Append(inserted, <<>>)
    /\ log' = Append(log, Line("Inserting rows into Supabase (chunk)", <<Str(0), Str(1)>>))
    /\ pc' = "returned"
    /\ UNCHANGED <<SUPABASE_URL, SUPABASE_KEY, fs, icons, idx, raw_tags, category,
                   tags_list, rows_to_insert, issued, i, error>>

\* main.py:87-89: nothing to insert
insert_no_rows ==
    /\ pc = "insert"
    /\ rows_to_insert = <<>>
    /\ log' = Append(log, Line("No rows to insert into Supabase.", <<>>))
    /\ pc' = "returned"
    /\ UNCHANGED <<SUPABASE_URL, SUPABASE_KEY, fs, icons, idx, raw_tags, category,
                   tags_list, rows_to_insert, issued, i, inserted, error>>

\* main.py:92-102: one turn of the chunk loop, execute() returns a response
insert_chunk ==
    /\ pc = "insert"
    /\ rows_to_insert # <<>>
    /\ i < Len(rows_to_insert)
    /\ LET chunk == Slice(rows_to_insert, i, i + chunk_size)
       IN  /\ inserted' = Append(inserted, chunk)
           /\ \E res \in Responses :
                 log' = log \o
                    << Line("Inserting rows into Supabase (chunk)",
                            <<Str(Len(chunk)), Str(ChunkNo(i))>>),
                       IF Truthy(Get(res, "error", None))
                       THEN Line("Supabase error:", <<res.error>>)
                       ELSE Line("Inserted.", <<>>) >>
    /\ i' = i + chunk_size
    /\ UNCHANGED <<pc, SUPABASE_URL, SUPABASE_KEY, fs, icons, idx, raw_tags, category,
                   tags_list, rows_to_insert, issued, error>>

\* main.py:92-97: one turn of the chunk loop, execute() raises; nothing catches
\* the exception, in insert_icons_to_supabase or in main
insert_chunk_raises ==
    /\ pc = "insert"
    /\ rows_to_insert # <<>>
    /\ i < Len(rows_to_insert)
    /\ LET chunk == Slice(rows_to_insert, i, i + chunk_size)
       IN  /\ inserted' = Append(inserted, chunk)
           /\ log' = Append(log, Line("Inserting rows into Supabase (chunk)",
                                      <<Str(Len(chunk)), Str(ChunkNo(i))>>))
    /\ error' = "postgrest.APIError"
    /\ pc' = "raised"
    /\ UNCHANGED <<SUPABASE_URL, SUPABASE_KEY, fs, icons, idx, raw_tags, category,
                   tags_list, rows_to_insert, issued, i>>

\* main.py:92: the range is exhausted, the function returns
insert_returns ==
    /\ pc = "insert"
    /\ rows_to_insert # <<>>
    /\ i >= Len(rows_to_insert)
    /\ pc' = "returned"
    /\ UNCHANGED <<SUPABASE_URL, SUPABASE_KEY, fs, icons, idx, raw_tags, category,
                   tags_list, rows_to_insert, issued, i, inserted, log, error>>

\* main.py:144
main_done ==
    /\ pc = "returned"
    /\ log' = Append(log, Line("Done.", <<>>))
    /\ pc' = "done"
    /\ UNCHANGED <<SUPABASE_URL, SUPABASE_KEY, fs, icons, idx, raw_tags, category,
                   tags_list, rows_to_insert, issued, i, inserted, error>>

Next ==
    \/ get_supabase_client
    \/ ensure_output_dir
    \/ fetch_icon_list_raises
    \/ fetch_icon_list_returns
    \/ skip_no_name
    \/ skip_file_not_found
    \/ build_row
    \/ call_insert
    \/ insert_no_rows
    \/ insert_chunk
    \/ insert_chunk_raises
    \/ insert_returns
    \/ main_done

Spec == Init /\ [][Next]_vars

-----------------------------------------------------------------------------
(* insert_icons_to_supabase called on its own with a list of n rows. *)

\* the k-th row: rows are told apart by their id
PubRow(k) ==
    [id |-> UuidStr(k),
     icon_name |-> <<"arrow-up">>,
     tags |-> << <<"direction">>, <<"arrow">> >>,
     keyword |-> EmptyStr,
     file |-> FileName(<<"arrow-up">>),
     embedding |-> None]

InitPub ==
    /\ pc = "insert"
    /\ SUPABASE_URL = <<"secret">>
    /\ SUPABASE_KEY = <<"secret">>
    /\ fs = {OUTPUT_DIR}
    /\ icons = <<>>
    /\ idx = 1
    /\ raw_tags = None
    /\ category = None
    /\ tags_list = <<>>
    /\ \E n \in 0..MaxRows : rows_to_insert = [k \in 1..n |-> PubRow(k)]
    /\ issued = {}
    /\ i = 0
    /\ inserted = <<>>
    /\ log = <<>>
    /\ error = "none"

NextPub ==
    \/ insert_no_rows
    \/ insert_chunk
    \/ insert_chunk_raises
    \/ insert_returns

SpecPub == InitPub /\ [][NextPub]_vars

-----------------------------------------------------------------------------
(* parse_tags called on its own (main.py:58-78). *)

InitTags ==
    /\ pc = "parse_tags"
    /\ SUPABASE_URL = <<"secret">>
    /\ SUPABASE_KEY = <<"secret">>
    /\ fs = {OUTPUT_DIR}
    /\ icons = <<>>
    /\ idx = 1
    /\ raw_tags \in RawTagInputs
    /\ category \in CategoryInputs
    /\ tags_list = <<>>
    /\ rows_to_insert = <<>>
    /\ issued = {}
    /\ i = 0
    /\ inserted = <<>>
    /\ log = <<>>
    /\ error = "none"

call_parse_tags ==
    /\ pc = "parse_tags"
    /\ tags_list' = parse_tags(raw_tags, category)
    /\ pc' = "parsed"
    /\ UNCHANGED <<SUPABASE_URL, SUPABASE_KEY, fs, icons, idx, raw_tags, category,
                   rows_to_insert, issued, i, inserted, log, error>>

NextTags == call_parse_tags

SpecTags == InitTags /\ [][NextTags]_vars

-----------------------------------------------------------------------------
(* Vocabulary of the properties, stated apart from the operators above. *)

\* the concatenation of a list of lists
RECURSIVE Flatten(_)
Flatten(chunks) ==
    IF chunks = <<>> THEN <<>> ELSE Head(chunks) \o Flatten(Tail(chunks))

\* no two positions of xs hold equal elements
NoDuplicates(xs) ==
    \A a, b \in 1..Len(xs) : a # b => xs[a] # xs[b]

\* the elements of xs
Elems(xs) == {xs[k] : k \in 1..Len(xs)}

\* the first position of x in xs
FirstPos(xs, x) == CHOOSE k \in 1..Len(xs) : xs[k] = x /\ \A j \in 1..(k - 1) : xs[j] # x

\* ceil(n / chunk_size)
NumChunks(n) == (n + chunk_size - 1) \div chunk_size

\* s without its leading and trailing whitespace, by positions
Trimmed(s) ==
    LET solid == {k \in 1..Len(s) : s[k] # " "}
    IN  IF solid = {} THEN <<>>
        ELSE LET lo == CHOOSE k \in solid : \A j \in solid : k <= j
                 hi == CHOOSE k \in solid : \A j \in solid : j <= k
             IN  [k \in 1..(hi - lo + 1) |-> s[lo + k - 1]]

\* the comma-separated pieces of s, trimmed, the empty ones dropped, in order:
\* piece number p lies between the (p-1)-th and the p-th comma
TrimmedPieces(s) ==
    LET commas == {k \in 1..Len(s) : s[k] = ","}
        start(c) == c + 1
        stop(c) == IF \E d \in commas : d > c
                   THEN (CHOOSE d \in commas : d > c /\ \A e \in commas : e > c => d <= e) - 1
                   ELSE Len(s)
        piece(c) == Trimmed([k \in 1..(stop(c) - start(c) + 1) |-> s[start(c) + k - 1]])
        cuts == {c \in {0} \cup commas : piece(c) # <<>>}
        nth[p \in 1..Cardinality(cuts)] ==
            CHOOSE c \in cuts : Cardinality({d \in cuts : d < c}) = p - 1
    IN  [p \in 1..Cardinality(cuts) |-> piece(nth[p])]

\* the candidate tags: the pieces of the raw tags, then the category
Candidates(raw, cat) ==
    (IF raw = None THEN <<>> ELSE TrimmedPieces(raw))
       \o (IF cat = None \/ cat = <<>> THEN <<>> ELSE <<Trimmed(cat)>>)

\* r is xs with every later repetition of an already-seen element removed
IsFirstOccurrences(r, xs) ==
    /\ NoDuplicates(r)
    /\ Elems(r) = Elems(xs)
    /\ \A a, b \in 1..Len(r) : a < b => FirstPos(xs, r[a]) < FirstPos(xs, r[b])

\* the catalog entry has a non-empty name
HasName(icon) == "name" \in DOMAIN icon /\ icon.name # None /\ icon.name # <<>>

\* '{name}-{style_suffix}.svg'
DerivedFile(icon) == icon.name \o <<"-", "stroke-rounded", ".svg">>

\* the derived file of the entry exists in the output directory
HasFile(icon) == (<<"icons", "/">> \o DerivedFile(icon)) \in fs

IsMatched(icon) == HasName(icon) /\ HasFile(icon)

IsFileMissing(icon) == HasName(icon) /\ ~HasFile(icon)

\* the entries main has gone through so far
Processed == SubSeq(icons, 1, idx - 1)

\* the printed lines with the given message
LinesWith(msg) == SelectSeq(log, LAMBDA l : l.msg = msg)

StartupErrors ==
    { "RuntimeError: SUPABASE_URL and SUPABASE_KEY must be set",
      "RuntimeError: Output directory does not exist",
      "requests.ConnectionError", "requests.HTTPError" }

-----------------------------------------------------------------------------
(* Properties. *)

\* C1: once insert_icons_to_supabase has ended on a non-empty row list, by
\* returning or by an exception of execute(), every chunk 1..ceil(n/100) has
\* been submitted: a failure of chunk k does not keep chunks k+1..m from being
\* submitted.
C1_FailureIsolation ==
    (pc \in {"returned", "raised"} /\ rows_to_insert # <<>>)
        => Len(inserted) = NumChunks(Len(rows_to_insert))

\* C2: the list parse_tags returns holds no two equal elements and no empty
\* string, and every element is trimmed of surrounding whitespace.
C2_TagsCleanAndUnique ==
    pc = "parsed" =>
        /\ NoDuplicates(tags_list)
        /\ \A k \in 1..Len(tags_list) :
              tags_list[k] # EmptyStr /\ Trimmed(tags_list[k]) = tags_list[k]

\* C3: when insert_icons_to_supabase returns on n >= 1 rows, whatever the
\* responses were, ceil(n/100) insert calls were issued, every call but the last
\* carried 100 rows, the last between 1 and 100, and the chunks concatenated in
\* call order are the row list; before that, the chunks submitted so far are the
\* first i rows.
C3_ChunkPartition ==
    LET n == Len(rows_to_insert)
        m == Len(inserted)
    IN  /\ pc = "insert" =>
              Flatten(inserted) = SubSeq(rows_to_insert, 1, IF i < n THEN i ELSE n)
        /\ (pc = "returned" /\ n >= 1) =>
              /\ m = NumChunks(n)
              /\ \A k \in 1..(m - 1) : Len(inserted[k]) = 100
              /\ Len(inserted[m]) \in 1..100
              /\ Flatten(inserted) = rows_to_insert

C3_Witness ==
    /\ pc = "returned"
    /\ Len(rows_to_insert) = 250
    /\ Len(inserted) = 3
    /\ Len(inserted[3]) = 50
    /\ LinesWith("Supabase error:") # <<>>

\* C4: in a run of main where the store URL or key is missing or the output
\* directory does not exist, the catalog fetch is never attempted and the run
\* gets no further than the failing check; and whenever a startup error
\* (credentials, output directory, fetch) was raised, the run has halted with
\* no row built and no insert call issued.
C4_FatalStartupPublishesNothing ==
    /\ (~Truthy(SUPABASE_URL) \/ ~Truthy(SUPABASE_KEY) \/ OUTPUT_DIR \notin fs) =>
          /\ pc \in {"main", "ensure_output_dir", "raised"}
          /\ log = <<>>
          /\ inserted = <<>>
    /\ LinesWith("Fetching icon list from") # <<>> =>
          /\ Truthy(SUPABASE_URL) /\ Truthy(SUPABASE_KEY)
          /\ OUTPUT_DIR \in fs
    /\ error \in StartupErrors =>
          /\ pc = "raised"
          /\ rows_to_insert = <<>>
          /\ inserted = <<>>
    /\ (pc = "raised" /\ ~Truthy(SUPABASE_URL)) =>
          error = "RuntimeError: SUPABASE_URL and SUPABASE_KEY must be set"
    /\ (pc = "raised" /\ OUTPUT_DIR \notin fs) => error \in StartupErrors

C4_Witness ==
    /\ pc = "raised"
    /\ error = "requests.HTTPError"
    /\ LinesWith("Fetching icon list from") # <<>>
    /\ inserted = <<>>

\* C5: the rows built so far are, in catalog order, one per processed entry that
\* has a non-empty name and whose derived file exists in the output directory;
\* and the list handed to insert_icons_to_supabase is built from the whole
\* catalog, so no skipped entry stops the processing of the entries after it.
C5_ReconciliationFilter ==
    LET matched == SelectSeq(Processed, IsMatched)
    IN  /\ Len(rows_to_insert) = Len(matched)
        /\ \A k \in 1..Len(matched) :
              /\ rows_to_insert[k].icon_name = matched[k].name
              /\ rows_to_insert[k].file = DerivedFile(matched[k])
        /\ pc \in {"insert", "returned", "done"} => idx = Len(icons) + 1

C5_Witness ==
    /\ pc = "insert"
    /\ Len(icons) = 2
    /\ IsFileMissing(icons[1])
    /\ IsMatched(icons[2])
    /\ Len(rows_to_insert) = 1

\* C6 as stated: every processed entry that gave no row, for lack of a name or
\* for lack of its file, has its own diagnostic line.
C6_EverySkipLogged ==
    Len(LinesWith("File not found for icon - skipping."))
        = Len(SelectSeq(Processed, LAMBDA e : ~IsMatched(e)))

\* C6 amended: the "File not found" lines printed so far are, in order, one per
\* processed entry with a non-empty name whose derived file does not exist, each
\* naming the icon and the path; an entry with no name gives no line.
C6_MissingFileSkipsLogged ==
    LET missing == SelectSeq(Processed, IsFileMissing)
        lines == LinesWith("File not found for icon - skipping.")
    IN  /\ Len(lines) = Len(missing)
        /\ \A k \in 1..Len(missing) :
              lines[k].args = <<missing[k].name, <<"icons", "/">> \o DerivedFile(missing[k])>>

C6_Witness ==
    /\ idx = 3
    /\ ~HasName(icons[1])
    /\ IsFileMissing(icons[2])
    /\ Len(LinesWith("File not found for icon - skipping.")) = 1

\* C7: the list parse_tags returns is the candidate sequence (the trimmed
\* non-empty comma-split pieces in order, then the category) with every later
\* repetition removed: a category equal to an earlier tag adds nothing, a new
\* category comes last; with the three documented examples.
C7_FirstOccurrenceOrder ==
    pc = "parsed" =>
        LET cands == Candidates(raw_tags, category)
            pieces == IF raw_tags = None THEN <<>> ELSE TrimmedPieces(raw_tags)
        IN  /\ IsFirstOccurrences(tags_list, cands)
            /\ (Len(cands) > Len(pieces) /\ cands[Len(cands)] \notin Elems(pieces)) =>
                  tags_list[Len(tags_list)] = cands[Len(cands)]
            /\ (Len(cands) > Len(pieces) /\ cands[Len(cands)] \in Elems(pieces)) =>
                  IsFirstOccurrences(tags_list, pieces)
            /\ (raw_tags = <<"b", ",", " ", "a", ",", " ", "b">> /\ category = <<"a">>) =>
                  tags_list = << <<"b">>, <<"a">> >>
            /\ (raw_tags = <<>> /\ category = <<"Shapes">>) =>
                  tags_list = << <<"Shapes">> >>
            /\ (raw_tags \in {<<>>, None} /\ category \in {<<>>, None}) =>
                  tags_list = <<>>

C7_Witness ==
    /\ pc = "parsed"
    /\ raw_tags = <<"b", ",", " ", "a", ",", " ", "b">>
    /\ category = <<"a">>
    /\ tags_list = << <<"b">>, <<"a">> >>

\* C8: when insert_icons_to_supabase is given an empty list it prints that
\* there is nothing to insert and returns with no insert call made.
C8_EmptyPublish ==
    /\ rows_to_insert = <<>> => inserted = <<>>
    /\ (pc \in {"returned", "done"} /\ rows_to_insert = <<>>) =>
          /\ LinesWith("No rows to insert into Supabase.") # <<>>
          /\ LinesWith("Inserting rows into Supabase (chunk)") = <<>>
          /\ error = "none"

C8_Witness ==
    /\ pc = "done"
    /\ Len(icons) = 2
    /\ rows_to_insert = <<>>
    /\ inserted = <<>>
    /\ LinesWith("No rows to insert into Supabase.") # <<>>

\* C9: every row has exactly the six fields, icon_name the entry's name, file
\* '{icon_name}-{style_suffix}.svg' (the name whose existence was checked), tags
\* parse_tags of the entry's tags and category, keyword empty and embedding
\* null; and the rows submitted in chunks are the rows as built.
C9_RecordShape ==
    LET matched == SelectSeq(Processed, IsMatched)
        sent == Flatten(inserted)
    IN  /\ Len(rows_to_insert) = Len(matched)
        /\ \A k \in 1..Len(rows_to_insert) :
              LET r == rows_to_insert[k]
                  e == matched[k]
              IN  /\ DOMAIN r = {"id", "icon_name", "tags", "keyword", "file", "embedding"}
                  /\ r.icon_name = e.name
                  /\ r.file = r.icon_name \o <<"-", "stroke-rounded", ".svg">>
                  /\ (<<"icons", "/">> \o r.file) \in fs
                  /\ r.tags = parse_tags(IF "tags" \in DOMAIN e THEN e.tags ELSE <<>>,
                                         IF "category" \in DOMAIN e THEN e.category ELSE None)
                  /\ r.keyword = <<>>
                  /\ r.embedding = None
        /\ Len(sent) <= Len(rows_to_insert)
        /\ \A k \in 1..Len(sent) : sent[k] = rows_to_insert[k]

C9_Witness ==
    /\ pc = "done"
    /\ Len(inserted) = 1
    /\ Len(inserted[1]) = 2
    /\ inserted[1][1].icon_name = <<"arrow-up">>
    /\ inserted[1][1].tags = << <<"direction">>, <<"arrow">>, <<"navigation">> >>
    /\ inserted[1][1].file = <<"arrow-up", "-", "stroke-rounded", ".svg">>

\* C10: every row of a run has a non-empty id, no two rows share an id (two
\* rows of the same icon name included), the rows submitted carry the ids they
\* were built with, and a step never changes the id of a row already built.
C10_UniqueIds ==
    /\ [](/\ \A k \in 1..Len(rows_to_insert) : rows_to_insert[k].id # <<>>
          /\ \A a, b \in 1..Len(rows_to_insert) :
                a # b => rows_to_insert[a].id # rows_to_insert[b].id
          /\ \A k \in 1..Len(Flatten(inserted)) :
                Flatten(inserted)[k].id = rows_to_insert[k].id)
    /\ [][\A k \in 1..Len(rows_to_insert) :
             /\ k <= Len(rows_to_insert')
             /\ rows_to_insert'[k].id = rows_to_insert[k].id]_vars

C10_Witness ==
    /\ pc = "done"
    /\ Len(rows_to_insert) = 2
    /\ rows_to_insert[1].icon_name = rows_to_insert[2].icon_name
    /\ rows_to_insert[1].id # rows_to_insert[2].id
    /\ Len(Flatten(inserted)) = 2

====
